---- MODULE Spec2Model ----
(***************************************************************************)
(* A model of ferux/proxysix: the proxy6 client (pkg/client), its domain   *)
(* entities (pkg/entities) and the console logger of the CLI.              *)
(*                                                                         *)
(* Go strings are sequences of one-character strings, so that case         *)
(* folding, digit parsing and line counting are computed, not assumed.     *)
(* A Go error is a record with a "kind" field; fmt.Errorf("...%w", e) is   *)
(* a record of kind "wrap" holding e.                                      *)
(***************************************************************************)
EXTENDS Integers, Sequences, FiniteSets, TLC

VARIABLES
    \* ---- httpClient.ListProxies (one call)
    pc,          \* position of the call: "start","built","responded","decoded","checked","done"
    key,         \* httpClient.key
    request,     \* the *http.Request built by loadAllProxies, or Nil
    requests,    \* how many times c.Do was called
    resp,        \* what c.Do returned: a transport error or [StatusCode, Body]
    decodes,     \* how many times json.Unmarshal ran
    checks,      \* how many times response.isError ran
    response,    \* proxyResponse (dst of doRequest)
    proxies,     \* ListProxies' first result (Nil is the nil slice)
    err,         \* ListProxies' second result (Nil is no error)
    \* ---- mapProxyToEntity / ParseProxyType on one raw record
    item,        \* the raw proxy record
    mapped,      \* Nil, or [proxy, err] as returned by mapProxyToEntity
    parsedType,  \* Nil, or [t, err] as returned by ParseProxyType(item.Type)
    \* ---- ParseProxyState
    value,       \* the text given to ParseProxyState
    parsedState, \* Nil, or [state, err] as returned
    \* ---- Sensitive[T]
    sens,        \* the Sensitive value: [value, allow]
    text,        \* Nil, or what the last MarshalText returned
    allowCalled, \* history: Allow has been called on sens
    ops,         \* number of calls made on sens
    wrapped,     \* history: the value NewSensitive was given
    \* ---- logging
    debugFlag,   \* --debug was given
    ctxLogger,   \* the context carries a logger (withLogger was applied)
    logger,      \* which client.Logger the call goes through: "simple" or "noop"
    stdout,      \* os.Stdout: the sequence of writes, each a string
    lastCall,    \* Nil, or [level, msg, args] of the last logging call
    faulted,     \* a logging call dereferenced a nil *simpleLogger
    calls,       \* number of logging calls made
    \* ---- error accessors
    anyErr,      \* the error handed to GetCode / GetMessage
    gotCode,     \* Nil, or GetCode(anyErr)
    gotMessage   \* Nil, or GetMessage(anyErr)

pipeVars  == <<pc, key, request, requests, resp, decodes, checks, response, proxies, err>>
mapVars   == <<item, mapped, parsedType>>
stateVars == <<value, parsedState>>
sensVars  == <<sens, text, allowCalled, ops, wrapped>>
logVars   == <<debugFlag, ctxLogger, logger, stdout, lastCall, faulted, calls>>
errVars   == <<anyErr, gotCode, gotMessage>>
vars      == <<pipeVars, mapVars, stateVars, sensVars, logVars, errVars>>

\* Go's nil (a nil slice, a nil error, a nil pointer) and "not called yet".
Nil == [kind |-> "nil"]

-----------------------------------------------------------------------------
(* Strings *)

\* All sequences over alphabet S of length at most n.
RECURSIVE StringsUpTo(_, _)
StringsUpTo(S, n) ==
    IF n = 0 THEN {<<>>}
    ELSE LET shorter == StringsUpTo(S, n - 1)
         IN  shorter \cup {Append(s, c) : s \in {t \in shorter : Len(t) = n - 1}, c \in S}

LowerOf ==
    [A |-> "a", C |-> "c", D |-> "d", E |-> "e", G |-> "g", H |-> "h", I |-> "i",
     K |-> "k", L |-> "l", N |-> "n", O |-> "o", P |-> "p", R |-> "r", S |-> "s",
     T |-> "t", V |-> "v", X |-> "x"]

\* unicode.ToLower on one character of the model's alphabet.
ToLowerChar(c) == IF c \in DOMAIN LowerOf THEN LowerOf[c] ELSE c

\* strings.ToLower
ToLower(s) == [i \in 1..Len(s) |-> ToLowerChar(s[i])]

UpperOf ==
    [a |-> "A", c |-> "C", d |-> "D", e |-> "E", g |-> "G", h |-> "H", i |-> "I",
     k |-> "K", l |-> "L", n |-> "N", o |-> "O", p |-> "P", r |-> "R", s |-> "S",
     t |-> "T", v |-> "V", x |-> "X"]

ToUpperChar(c) == IF c \in DOMAIN UpperOf THEN UpperOf[c] ELSE c

\* Every way of writing s with each letter in either case.
RECURSIVE CaseVariants(_)
CaseVariants(s) ==
    IF s = <<>> THEN {<<>>}
    ELSE {<<c>> \o rest : c \in {s[1], ToUpperChar(s[1])}, rest \in CaseVariants(Tail(s))}

Digits == <<"0", "1", "2", "3", "4", "5", "6", "7", "8", "9">>

IsDigit(c) == \E d \in 1..10 : Digits[d] = c

DigitVal(c) == (CHOOSE d \in 1..10 : Digits[d] = c) - 1

\* The decimal text of a natural number.
RECURSIVE NatText(_)
NatText(n) == IF n < 10 THEN <<Digits[n + 1]>> ELSE Append(NatText(n \div 10), Digits[(n % 10) + 1])

\* strconv.Itoa
Itoa(n) == IF n < 0 THEN <<"-">> \o NatText(-n) ELSE NatText(n)

-----------------------------------------------------------------------------
(* Errors and their accessors *)

GeneralError(msg) == [kind |-> "GeneralError", msg |-> msg]

RequestError(code, msg) == [kind |-> "RequestError", code |-> code, msg |-> msg]

newParseError(name, reason) == [kind |-> "ParseError", Name |-> name, Reason |-> reason]

\* fmt.Errorf(format, ..., err) with a %w verb: an error that unwraps to err.
Errorf(format, e) == [kind |-> "wrap", format |-> format, err |-> e]

\* entities.ErrWrongProxyType
ErrWrongProxyType == [kind |-> "entities.Error", text |-> "wrong proxy type"]

\* errors.As(e, &target) for a target of the concrete type `kind`: the first error
\* of that type on e's Unwrap chain, or Nil.
RECURSIVE ErrorsAs(_, _)
ErrorsAs(e, kind) ==
    IF e.kind = kind THEN e
    ELSE IF e.kind = "wrap" THEN ErrorsAs(e.err, kind)
    ELSE Nil

GetCode(e) ==
    LET rerr == ErrorsAs(e, "RequestError")
    IN  IF rerr # Nil THEN rerr.code ELSE -1

GetMessage(e) ==
    LET rerr == ErrorsAs(e, "RequestError")
        gerr == ErrorsAs(e, "GeneralError")
    IN  IF rerr # Nil THEN rerr.msg
        ELSE IF gerr # Nil THEN gerr.msg
        ELSE <<>>

\* RequestError.Error
RequestErrorText(e) ==
    LET code == Itoa(e.code)
        head == <<"u","n","e","x","p","e","c","t","e","d"," ","c","o","d","e"," ">>
    IN  IF e.msg = <<>> THEN head \o code ELSE head \o code \o <<":", " ">> \o e.msg

-----------------------------------------------------------------------------
(* ProxyState *)

ProxyStateUnknown  == 0
ProxyStateActive   == 1
ProxyStateExpired  == 2
ProxyStateExpiring == 3
ProxyStateAll      == 4

\* ProxyState.String
ProxyStateString(s) ==
    CASE s = ProxyStateAll      -> <<"a","l","l">>
      [] s = ProxyStateExpiring -> <<"e","x","p","i","r","i","n","g">>
      [] s = ProxyStateExpired  -> <<"e","x","p","i","r","e","d">>
      [] s = ProxyStateActive   -> <<"a","c","t","i","v","e">>
      [] OTHER                  -> <<>>

UnsupportedValue == <<"u","n","s","u","p","p","o","r","t","e","d"," ","v","a","l","u","e"," ">>

\* A faulty ParseProxyState that compares the text as given.
ParseProxyStateExact(v) ==
    CASE v = ProxyStateString(ProxyStateAll)      -> [state |-> ProxyStateAll, err |-> Nil]
      [] v = ProxyStateString(ProxyStateExpiring) -> [state |-> ProxyStateExpiring, err |-> Nil]
      [] v = ProxyStateString(ProxyStateExpired)  -> [state |-> ProxyStateExpired, err |-> Nil]
      [] v = ProxyStateString(ProxyStateActive)   -> [state |-> ProxyStateActive, err |-> Nil]
      [] OTHER -> [state |-> ProxyStateUnknown,
                   err |-> newParseError("state", UnsupportedValue \o v)]

ParseProxyState(v) ==
    LET lower == ToLower(v)
    IN  CASE lower = ProxyStateString(ProxyStateAll)      -> [state |-> ProxyStateAll, err |-> Nil]
          [] lower = ProxyStateString(ProxyStateExpiring) -> [state |-> ProxyStateExpiring, err |-> Nil]
          [] lower = ProxyStateString(ProxyStateExpired)  -> [state |-> ProxyStateExpired, err |-> Nil]
          [] lower = ProxyStateString(ProxyStateActive)   -> [state |-> ProxyStateActive, err |-> Nil]
          [] OTHER -> [state |-> ProxyStateUnknown,
                       err |-> newParseError("state", UnsupportedValue \o v)]

-----------------------------------------------------------------------------
(* ProxyType *)

ProxyTypeUnknown == 0
ProxyTypeHTTP    == 1
ProxyTypeSocks   == 2

\* A faulty ParseProxyType that folds case, as ParseProxyState does.
ParseProxyTypeFold(v) ==
    CASE ToLower(v) = <<"h","t","t","p">>     -> [t |-> ProxyTypeHTTP, err |-> Nil]
      [] ToLower(v) = <<"s","o","c","k","s">> -> [t |-> ProxyTypeSocks, err |-> Nil]
      [] OTHER -> [t |-> ProxyTypeUnknown, err |-> Errorf("type %s: %w", ErrWrongProxyType)]

ParseProxyType(v) ==
    CASE v = <<"h","t","t","p">>     -> [t |-> ProxyTypeHTTP, err |-> Nil]
      [] v = <<"s","o","c","k","s">> -> [t |-> ProxyTypeSocks, err |-> Nil]
      [] OTHER -> [t |-> ProxyTypeUnknown, err |-> Errorf("type %s: %w", ErrWrongProxyType)]

-----------------------------------------------------------------------------
(* Sensitive[T] and Proxy *)

\* A value of a type parameter T is [str |-> text] for a string, [int |-> n] for an int.
\* NewSensitive
NewSensitive(v) == [value |-> v, allow |-> FALSE]

\* time.Unix(sec, 0), and the zero time.Time{} of an empty Proxy.
TimeUnix(sec) == [sec |-> sec]
ZeroTime == [zero |-> TRUE]

\* entities.Proxy{}
ZeroProxy ==
    [ID |-> <<>>, Host |-> <<>>, Port |-> 0, User |-> <<>>, Password |-> NewSensitive([str |-> <<>>]),
     Type |-> ProxyTypeUnknown, Country |-> <<>>, Date |-> ZeroTime, ExpireDate |-> ZeroTime,
     Description |-> <<>>, Active |-> FALSE]

-----------------------------------------------------------------------------
(* Mapping a raw record *)

\* A uint16 holds 16 bits.
Uint16Size == 65536

ErrSyntax == [kind |-> "strconv.NumError", Func |-> "Atoi", Err |-> "invalid syntax"]

RECURSIVE DecimalValue(_)
DecimalValue(s) ==
    IF s = <<>> THEN 0 ELSE DecimalValue(SubSeq(s, 1, Len(s) - 1)) * 10 + DigitVal(s[Len(s)])

\* strconv.Atoi on a text of fewer than 19 bytes (its fast path, which never leaves
\* the int64 range): an optional sign, then digits only.
Atoi(s) ==
    LET signed == s # <<>> /\ s[1] \in {"-", "+"}
        body   == IF signed THEN Tail(s) ELSE s
    IN  IF body = <<>> \/ \E i \in 1..Len(body) : ~IsDigit(body[i])
        THEN [n |-> 0, err |-> ErrSyntax]
        ELSE [n |-> IF s[1] = "-" THEN -DecimalValue(body) ELSE DecimalValue(body), err |-> Nil]

\* The conversion uint16(n) of an int: the low 16 bits.
Uint16(n) == n % Uint16Size

\* strings.EqualFold on the model's alphabet.
EqualFold(a, b) == ToLower(a) = ToLower(b)

mapProxyToEntity(p) ==
    LET port      == Atoi(p.Port)
        proxyType == ParseProxyType(p.Type)
    IN  IF port.err # Nil THEN [proxy |-> ZeroProxy, err |-> Errorf("parsing port: %w", port.err)]
        ELSE IF proxyType.err # Nil
        THEN [proxy |-> ZeroProxy, err |-> Errorf("parsing proxy type: %w", proxyType.err)]
        ELSE [proxy |-> [ID |-> p.ID, Host |-> p.Host, Port |-> Uint16(port.n), User |-> p.User,
                         Password |-> NewSensitive([str |-> p.Pass]), Type |-> proxyType.t,
                         Country |-> p.Country, Date |-> TimeUnix(p.Unixtime),
                         ExpireDate |-> TimeUnix(p.UnixtimeEnd), Description |-> p.Descr,
                         Active |-> EqualFold(p.Active, <<"1">>)],
              err |-> Nil]

\* The loop of mapProxyResponse over list[i..], appending to acc.
RECURSIVE mapFrom(_, _, _)
mapFrom(list, i, acc) ==
    IF i > Len(list) THEN [proxies |-> [kind |-> "slice", elems |-> acc], err |-> Nil]
    ELSE LET r == mapProxyToEntity(list[i])
         IN  IF r.err # Nil THEN [proxies |-> Nil, err |-> r.err]
             ELSE mapFrom(list, i + 1, Append(acc, r.proxy))

\* A faulty loop that skips a record it cannot map.
RECURSIVE mapFromSkipping(_, _, _)
mapFromSkipping(list, i, acc) ==
    IF i > Len(list) THEN [proxies |-> [kind |-> "slice", elems |-> acc], err |-> Nil]
    ELSE LET r == mapProxyToEntity(list[i])
         IN  IF r.err # Nil THEN mapFromSkipping(list, i + 1, acc)
             ELSE mapFromSkipping(list, i + 1, Append(acc, r.proxy))

mapProxyResponseSkipping(r) == mapFromSkipping(r.List, 1, <<>>)

mapProxyResponse(r) == mapFrom(r.List, 1, <<>>)

\* A raw record as the provider sends it; the fields the mapping only copies are fixed.
RawProxy(id, port, type, active) ==
    [ID |-> id, Host |-> <<"h">>, Port |-> port, User |-> <<"u">>, Pass |-> <<"p">>,
     Type |-> type, Country |-> <<"r","u">>, Unixtime |-> 0, UnixtimeEnd |-> 0,
     Descr |-> <<>>, Active |-> active]

-----------------------------------------------------------------------------
(* The provider's JSON and its decoding *)

\* JSON values: a key that is missing, a string, a number, an array of records.
Absent  == [absent |-> TRUE]
JStr(s) == [str |-> s]
JNum(n) == [num |-> n]
JArr(a) == [arr |-> a]

IsStr(v) == "str" \in DOMAIN v
IsNum(v) == "num" \in DOMAIN v
IsArr(v) == "arr" \in DOMAIN v

Quote(s) == <<"\"">> \o s \o <<"\"">>

\* The text of one raw record.
RenderItem(p) ==
    <<"{", "\"id\":">> \o Quote(p.ID) \o <<",", "\"port\":">> \o Quote(p.Port)
        \o <<",", "\"type\":">> \o Quote(p.Type) \o <<",", "\"active\":">> \o Quote(p.Active) \o <<"}">>

RECURSIVE RenderItems(_)
RenderItems(a) ==
    IF a = <<>> THEN <<>>
    ELSE RenderItem(a[1]) \o (IF Len(a) > 1 THEN <<",">> ELSE <<>>) \o RenderItems(Tail(a))

RenderValue(v) ==
    IF IsStr(v) THEN Quote(v.str)
    ELSE IF IsNum(v) THEN Itoa(v.num)
    ELSE <<"[">> \o RenderItems(v.arr) \o <<"]">>

RECURSIVE RenderFields(_, _)
RenderFields(doc, names) ==
    IF names = <<>> THEN <<>>
    ELSE LET rest == RenderFields(doc, Tail(names))
         IN  IF doc[names[1]] = Absent THEN rest
             ELSE <<"\"", names[1], "\":">> \o RenderValue(doc[names[1]])
                      \o (IF rest = <<>> THEN <<>> ELSE <<",">>) \o rest

\* The body text of a JSON document.
Render(doc) == <<"{">> \o RenderFields(doc, <<"status", "error_id", "error", "list">>) \o <<"}">>

\* The zero proxyResponse that loadAllProxies hands to doRequest.
ZeroResponse == [Status |-> <<>>, ErrorID |-> 0, Error |-> <<>>, ListCount |-> 0, List |-> <<>>]

UnmarshalTypeError(field) == [kind |-> "json.UnmarshalTypeError", Field |-> field]
SyntaxError == [kind |-> "json.SyntaxError"]

\* json.Unmarshal(body, &response) where body is the text of doc (Nil when the
\* text is not JSON). A missing key leaves the field at its zero value; a value
\* of the wrong type leaves the field alone and is reported, the first one named;
\* ListCount has no key of the provider's to take.
Unmarshal(doc) ==
    IF doc = Nil THEN [response |-> ZeroResponse, err |-> SyntaxError]
    ELSE LET okStatus == doc.status = Absent \/ IsStr(doc.status)
             okID     == doc.error_id = Absent \/ IsNum(doc.error_id)
             okError  == doc.error = Absent \/ IsStr(doc.error)
             okList   == doc.list = Absent \/ IsArr(doc.list)
         IN  [response |->
                 [Status    |-> IF IsStr(doc.status) THEN doc.status.str ELSE <<>>,
                  ErrorID   |-> IF IsNum(doc.error_id) THEN doc.error_id.num ELSE 0,
                  Error     |-> IF IsStr(doc.error) THEN doc.error.str ELSE <<>>,
                  ListCount |-> 0,
                  List      |-> IF IsArr(doc.list) THEN doc.list.arr ELSE <<>>],
              err |-> IF ~okStatus THEN UnmarshalTypeError("status")
                      ELSE IF ~okID THEN UnmarshalTypeError("error_id")
                      ELSE IF ~okError THEN UnmarshalTypeError("error")
                      ELSE IF ~okList THEN UnmarshalTypeError("list")
                      ELSE Nil]

-----------------------------------------------------------------------------
(* httpClient.ListProxies *)

\* http.StatusBadRequest
StatusBadRequest == 400

\* A faulty isError that looks at the status text only.
isErrorStatusOnly(b) == b.Status = <<"n","o">>

\* baseResponse.isError
isError(b) == b.Status = <<"n","o">> \/ b.ErrorID > 0 \/ b.Error # <<>>

IsControl(c) == c \in {"\n", "\t", "\r"}
IsHex(c) == IsDigit(c) \/ c \in {"a", "b", "c", "d", "e", "f", "A", "B", "C", "D", "E", "F"}

\* Whether http.NewRequestWithContext can parse addr + "/api/" + key + "/getproxy":
\* net/url refuses a control character and a "%" that two hex digits do not follow.
URLParses(k) ==
    /\ \A i \in 1..Len(k) : ~IsControl(k[i])
    /\ \A i \in 1..Len(k) :
          k[i] = "%" => (i + 2 <= Len(k) /\ IsHex(k[i + 1]) /\ IsHex(k[i + 2]))

URLError == [kind |-> "url.Error", Op |-> "parse"]
TransportError == [kind |-> "url.Error", Op |-> "Get"]

\* The request loadAllProxies builds.
NewRequest(k, state, desc) ==
    [Method |-> "GET",
     Path   |-> <<"/", "a", "p", "i", "/">> \o k \o <<"/", "g", "e", "t", "p", "r", "o", "x", "y">>,
     Query  |-> [state |-> ProxyStateString(state), descr |-> desc, nokey |-> <<>>]]

\* A faulty doRequest that decodes before it looks at the status.
doRequestDecodeFirst(out, dst) ==
    IF out.kind = "error"
    THEN [sent |-> 1, decoded |-> 0, dst |-> dst, err |-> Errorf("doing request: %w", out.err)]
    ELSE LET d == Unmarshal(out.doc)
         IN  IF d.err # Nil
             THEN [sent |-> 1, decoded |-> 1, dst |-> d.response,
                   err |-> Errorf("decoding json: %w", d.err)]
             ELSE IF out.StatusCode >= StatusBadRequest
             THEN [sent |-> 1, decoded |-> 1, dst |-> d.response,
                   err |-> RequestError(out.StatusCode, out.Body)]
             ELSE [sent |-> 1, decoded |-> 1, dst |-> d.response, err |-> Nil]

\* A faulty doRequest that sends again after a transport error.
doRequestRetry(out, dst) ==
    IF out.kind = "error"
    THEN [sent |-> 2, decoded |-> 0, dst |-> dst, err |-> Errorf("doing request: %w", out.err)]
    ELSE IF out.StatusCode >= StatusBadRequest
    THEN [sent |-> 1, decoded |-> 0, dst |-> dst, err |-> RequestError(out.StatusCode, out.Body)]
    ELSE LET d == Unmarshal(out.doc)
         IN  [sent |-> 1, decoded |-> 1, dst |-> d.response,
              err |-> IF d.err # Nil THEN Errorf("decoding json: %w", d.err) ELSE Nil]

\* doRequest, given what c.Do returns: how many requests went out, how many times
\* the body was decoded, what dst holds afterwards and the error returned.
doRequest(out, dst) ==
    IF out.kind = "error"
    THEN [sent |-> 1, decoded |-> 0, dst |-> dst, err |-> Errorf("doing request: %w", out.err)]
    ELSE IF out.StatusCode >= StatusBadRequest
    THEN [sent |-> 1, decoded |-> 0, dst |-> dst, err |-> RequestError(out.StatusCode, out.Body)]
    ELSE LET d == Unmarshal(out.doc)
         IN  [sent |-> 1, decoded |-> 1, dst |-> d.response,
              err |-> IF d.err # Nil THEN Errorf("decoding json: %w", d.err) ELSE Nil]

\* loadAllProxies after doRequest succeeded: the envelope check.
checkResponse(response_) ==
    IF isError(response_) THEN RequestError(response_.ErrorID, response_.Error) ELSE Nil

\* Keys, outcomes of c.Do and documents the provider may send.
MaxKeyLen == 1
MaxList == 2

Keys == StringsUpTo({"a", "%", "\n"}, MaxKeyLen)

ItemHTTP    == RawProxy(<<"1">>, <<"8","0","8","0">>, <<"h","t","t","p">>, <<"1">>)
ItemSocks   == RawProxy(<<"2">>, <<"7","0","0","0","0">>, <<"s","o","c","k","s">>, <<"0">>)
ItemBadPort == RawProxy(<<"3">>, <<"a","b","c">>, <<"h","t","t","p">>, <<"1">>)
ItemBadType == RawProxy(<<"4">>, <<"8","0">>, <<"H","T","T","P">>, <<"1">>)
ItemBadBoth == RawProxy(<<"5">>, <<>>, <<>>, <<"1">>)

Items == {ItemHTTP, ItemSocks, ItemBadPort, ItemBadType, ItemBadBoth}

Lists == StringsUpTo(Items, MaxList)

Doc(status, id, error, list) == [status |-> status, error_id |-> id, error |-> error, list |-> list]

StatusValues  == {Absent, JStr(<<"y","e","s">>), JStr(<<"n","o">>), JNum(1)}
ErrorIDValues == {Absent, JNum(0), JNum(100), JNum(-1), JStr(<<"1","0","0">>)}
ErrorValues   == {Absent, JStr(<<>>), JStr(<<"b","a","d">>)}

\* Every envelope with a short list, and every list under an envelope that may pass.
Docs ==
    {Doc(st, id, e, l) : st \in StatusValues, id \in ErrorIDValues, e \in ErrorValues,
                         l \in {Absent, JArr(<<>>), JArr(<<ItemHTTP>>), JStr(<<>>)}}
    \cup {Doc(st, id, e, JArr(l)) : st \in {Absent, JStr(<<"y","e","s">>)}, id \in {Absent, JNum(0), JNum(-1)},
                                    e \in {Absent, JStr(<<>>)}, l \in Lists}

StatusCodes == {200, 399, 400, 404}

HTMLBody == <<"<", "h", "t", "m", "l", ">">>

\* What c.Do may return: an error, or a response whose body is the text of a
\* document or is not JSON at all.
Outcomes ==
    {[kind |-> "error", err |-> TransportError]}
    \cup {[kind |-> "response", StatusCode |-> c, Body |-> Render(d), doc |-> d] :
             c \in StatusCodes, d \in Docs}
    \cup {[kind |-> "response", StatusCode |-> c, Body |-> b, doc |-> Nil] :
             c \in StatusCodes, b \in {<<>>, HTMLBody}}

PipeIdle ==
    /\ pc = "idle" /\ key = <<>> /\ request = Nil /\ requests = 0 /\ resp = Nil
    /\ decodes = 0 /\ checks = 0 /\ response = ZeroResponse /\ proxies = Nil /\ err = Nil

PipeInit ==
    /\ pc = "start" /\ key \in Keys /\ request = Nil /\ requests = 0 /\ resp = Nil
    /\ decodes = 0 /\ checks = 0 /\ response = ZeroResponse /\ proxies = Nil /\ err = Nil

\* loadAllProxies up to the call of doRequest: the request is built, or the call
\* returns the error of building it.
BuildRequest ==
    /\ pc = "start"
    /\ \E state \in {ProxyStateActive, ProxyStateAll} :
          IF URLParses(key)
          THEN /\ request' = NewRequest(key, state, <<>>)
               /\ pc' = "built"
               /\ UNCHANGED <<proxies, err>>
          ELSE /\ err' = Errorf("making request: %w", URLError)
               /\ proxies' = Nil
               /\ pc' = "done"
               /\ UNCHANGED request
    /\ UNCHANGED <<key, requests, resp, decodes, checks, response>>
    /\ UNCHANGED <<mapVars, stateVars, sensVars, logVars, errVars>>

\* doRequest: c.Do returns, the status is looked at, the body decoded.
DoRequest ==
    /\ pc = "built"
    /\ \E out \in Outcomes :
          LET r == doRequest(out, response)
          IN  /\ resp' = out
              /\ requests' = requests + r.sent
              /\ decodes' = decodes + r.decoded
              /\ response' = r.dst
              /\ err' = r.err
    /\ pc' = "requested"
    /\ UNCHANGED <<key, request, checks, proxies>>
    /\ UNCHANGED <<mapVars, stateVars, sensVars, logVars, errVars>>

\* loadAllProxies after doRequest: its error is returned, or the envelope checked.
CheckResponse ==
    /\ pc = "requested"
    /\ IF err # Nil
       THEN UNCHANGED <<err, checks>>
       ELSE /\ checks' = checks + 1
            /\ err' = checkResponse(response)
    /\ pc' = "loaded"
    /\ UNCHANGED <<key, request, requests, resp, decodes, response, proxies>>
    /\ UNCHANGED <<mapVars, stateVars, sensVars, logVars, errVars>>

\* ListProxies after loadAllProxies: its error is returned, or the list mapped.
MapResponse ==
    /\ pc = "loaded"
    /\ IF err # Nil
       THEN proxies' = Nil /\ UNCHANGED err
       ELSE LET m == mapProxyResponse(response)
            IN  proxies' = m.proxies /\ err' = m.err
    /\ pc' = "done"
    /\ UNCHANGED <<key, request, requests, resp, decodes, checks, response>>
    /\ UNCHANGED <<mapVars, stateVars, sensVars, logVars, errVars>>

-----------------------------------------------------------------------------
(* mapProxyToEntity and ParseProxyType on one record *)

MaxPortLen == 4

PortTexts ==
    StringsUpTo({"0", "5", "6", "-", "+", "a"}, MaxPortLen)
    \cup {<<"8","0","8","0">>, <<"a","b","c">>, <<"6","5","5","3","5">>, <<"6","5","5","3","6">>,
          <<"7","0","0","0","0">>, <<"-","1">>, <<"1","3","1","0","7","2">>}

TypeTexts ==
    CaseVariants(<<"h","t","t","p">>) \cup CaseVariants(<<"s","o","c","k","s">>)
    \cup {<<>>, <<"h","t","t">>, <<"h","t","t","p","s">>, <<"s","o","c","k","s","5">>, <<" ","h","t","t","p">>}

MapInputs ==
    {RawProxy(<<"1">>, p, t, <<"1">>) :
        p \in PortTexts, t \in {<<"h","t","t","p">>, <<"s","o","c","k","s">>, <<"H","T","T","P">>}}
    \cup {RawProxy(<<"1">>, p, t, a) :
        p \in {<<"8","0","8","0">>, <<"a","b","c">>, <<"7","0","0","0","0">>}, t \in TypeTexts,
        a \in {<<"1">>, <<"0">>, <<>>}}

MapIdle == item = Nil /\ mapped = Nil /\ parsedType = Nil

MapInit == item \in MapInputs /\ mapped = Nil /\ parsedType = Nil

CallMapProxyToEntity ==
    /\ mapped = Nil
    /\ mapped' = mapProxyToEntity(item)
    /\ UNCHANGED <<item, parsedType>>
    /\ UNCHANGED <<pipeVars, stateVars, sensVars, logVars, errVars>>

CallParseProxyType ==
    /\ parsedType = Nil
    /\ parsedType' = ParseProxyType(item.Type)
    /\ UNCHANGED <<item, mapped>>
    /\ UNCHANGED <<pipeVars, stateVars, sensVars, logVars, errVars>>

-----------------------------------------------------------------------------
(* ParseProxyState on one text *)

MaxTextLen == 3

StateTexts ==
    UNION {CaseVariants(ProxyStateString(st)) :
              st \in {ProxyStateAll, ProxyStateActive, ProxyStateExpired, ProxyStateExpiring}}
    \cup StringsUpTo({"a", "l", "A", "L", " "}, MaxTextLen)
    \cup {<<"a","c","t","i","v">>, <<"a","c","t","i","v","e","s">>, <<"u","n","k","n","o","w","n">>,
          <<"e","x","p","i","r","e">>, <<"A","L","L"," ">>}

StateIdle == value = <<>> /\ parsedState = Nil

StateInit == value \in StateTexts /\ parsedState = Nil

CallParseProxyState ==
    /\ parsedState = Nil
    /\ parsedState' = ParseProxyState(value)
    /\ UNCHANGED value
    /\ UNCHANGED <<pipeVars, mapVars, sensVars, logVars, errVars>>

-----------------------------------------------------------------------------
(* Sensitive[T] *)

MaxOps == 5

\* fmt.Sprintf("%v", value)
FormatV(v) == IF "int" \in DOMAIN v THEN Itoa(v.int) ELSE v.str

Mask == <<"*", "*", "*">>

\* A faulty MarshalText that never reveals.
MarshalTextAlwaysMasked(s) == Mask

\* Sensitive.MarshalText
MarshalText(s) == IF s.allow THEN FormatV(s.value) ELSE Mask

\* Sensitive.Allow
Allow(s) == [s EXCEPT !.allow = TRUE]

SensValues ==
    {[str |-> <<>>], [str |-> <<"p","w">>], [str |-> <<"4","2">>], [str |-> <<"*","*","*">>],
     [int |-> 42], [int |-> -7], [int |-> 0]}

SensIdle ==
    /\ sens = NewSensitive([str |-> <<>>]) /\ wrapped = [str |-> <<>>]
    /\ text = Nil /\ allowCalled = FALSE /\ ops = 0

SensInit ==
    /\ wrapped \in SensValues /\ sens = NewSensitive(wrapped)
    /\ text = Nil /\ allowCalled = FALSE /\ ops = 0

CallMarshalText ==
    /\ ops < MaxOps
    /\ text' = [bytes |-> MarshalText(sens), allowedBefore |-> allowCalled]
    /\ ops' = ops + 1
    /\ UNCHANGED <<sens, allowCalled, wrapped>>
    /\ UNCHANGED <<pipeVars, mapVars, stateVars, logVars, errVars>>

CallAllow ==
    /\ ops < MaxOps
    /\ sens' = Allow(sens)
    /\ allowCalled' = TRUE
    /\ ops' = ops + 1
    /\ UNCHANGED <<text, wrapped>>
    /\ UNCHANGED <<pipeVars, mapVars, stateVars, logVars, errVars>>

-----------------------------------------------------------------------------
(* Logging: the console adapter of the CLI and the no-op logger *)

MaxCalls == 2

\* fmt's rendering of a format whose arguments are used up, from position i on: a
\* "%" takes the spaces after it as flags and the next character as its verb, which
\* it echoes as missing. (Of fmt's flag, width and index characters only the space
\* occurs in the formats of the model.)
RECURSIVE SprintfFrom(_, _)
SprintfFrom(f, i) ==
    IF i > Len(f) THEN <<>>
    ELSE IF f[i] # "%" THEN <<f[i]>> \o SprintfFrom(f, i + 1)
    ELSE LET after == {j \in (i + 1)..Len(f) : f[j] # " "}
         IN  IF after = {} THEN <<"%", "!", "(NOVERB)">>
             ELSE LET j == CHOOSE k \in after : \A m \in after : k <= m
                  IN  IF f[j] = "%" THEN <<"%">> \o SprintfFrom(f, j + 1)
                      ELSE <<"%", "!", f[j], "(MISSING)">> \o SprintfFrom(f, j + 1)

\* simpleWrapper.join
RECURSIVE join(_)
join(args) ==
    IF args = <<>> THEN <<>>
    ELSE args[1].Key \o <<"=">> \o FormatV(args[1].Value) \o <<" ">> \o join(Tail(args))

\* A faulty simpleLogger.Log that reads the level of a nil receiver.
LogUnchecked(l, format) ==
    IF l = Nil THEN [writes |-> <<>>, fault |-> TRUE]
    ELSE [writes |-> << <<"[">> \o l.level \o <<"]", " ">> \o SprintfFrom(format \o <<"\n">>, 1) >>,
          fault |-> FALSE]

\* simpleLogger.Log(format) on receiver l, called with no arguments: what it
\* writes to os.Stdout, and whether it faults. The level takes the %s of the
\* prefix; the format and the final newline are rendered with nothing left.
Log(l, format) ==
    IF l = Nil THEN [writes |-> <<>>, fault |-> FALSE]
    ELSE [writes |-> << <<"[">> \o l.level \o <<"]", " ">> \o SprintfFrom(format \o <<"\n">>, 1) >>,
          fault |-> FALSE]

LevelText(level) ==
    CASE level = "debug" -> <<"d","e","b","u","g">>
      [] level = "info"  -> <<"i","n","f","o">>
      [] level = "error" -> <<"e","r","r","o","r">>

\* The log value of main after Before ran: the info and error sinks are there,
\* the debug sink only under --debug.
MainLog(debug) ==
    [debug |-> IF debug THEN [level |-> LevelText("debug")] ELSE Nil,
     info  |-> [level |-> LevelText("info")],
     error |-> [level |-> LevelText("error")]]

\* log{}
ZeroLog == [debug |-> Nil, info |-> Nil, error |-> Nil]

\* getLogger: the log value the context carries, or the zero log.
getLogger(hasLogger, debug) == IF hasLogger THEN MainLog(debug) ELSE ZeroLog

\* simpleWrapper.Debug / Info / Error
simpleWrapperLog(log, level, msg, args) == Log(log[level], msg \o <<" ">> \o join(args))

\* noopLogger.Debug / Info / Error
noopLog(level, msg, args) == [writes |-> <<>>, fault |-> FALSE]

Messages == {<<"o","k">>, <<"a","\n","b">>, <<"1","0","0","%">>}

FieldValues == {[str |-> <<"{","}","\n">>], [int |-> 200]}

ArgLists == {<<>>} \cup {<<[Key |-> <<"k">>, Value |-> v]>> : v \in FieldValues}

LogIdle ==
    /\ debugFlag = FALSE /\ ctxLogger = FALSE /\ logger = "noop"
    /\ stdout = <<>> /\ lastCall = Nil /\ faulted = FALSE /\ calls = 0

LogInit ==
    /\ debugFlag \in BOOLEAN /\ ctxLogger \in BOOLEAN /\ logger \in {"simple", "noop"}
    /\ stdout = <<>> /\ lastCall = Nil /\ faulted = FALSE /\ calls = 0

\* One call of Debug, Info or Error on the client.Logger in use.
LogCall(level) ==
    /\ calls < MaxCalls
    /\ ~faulted
    /\ calls' = calls + 1
    /\ \E msg \in Messages, args \in ArgLists :
          LET r == IF logger = "noop" THEN noopLog(level, msg, args)
                   ELSE simpleWrapperLog(getLogger(ctxLogger, debugFlag), level, msg, args)
          IN  /\ stdout' = stdout \o r.writes
              /\ faulted' = r.fault
              /\ lastCall' = [level |-> level, msg |-> msg, args |-> args, before |-> Len(stdout)]
    /\ UNCHANGED <<debugFlag, ctxLogger, logger>>
    /\ UNCHANGED <<pipeVars, mapVars, stateVars, sensVars, errVars>>

Debug == LogCall("debug")
Info  == LogCall("info")
Error == LogCall("error")

-----------------------------------------------------------------------------
(* GetCode and GetMessage on one error *)

MaxWrap == 2

BaseErrors ==
    {GeneralError(m) : m \in {<<>>, <<"a","d","d","r">>}}
    \cup {RequestError(c, m) : c \in {-1, 0, 100, 404}, m \in {<<>>, <<"b","a","d">>}}
    \cup {newParseError("state", UnsupportedValue \o v) : v \in {<<>>, <<"x">>}}
    \cup {ErrWrongProxyType, ErrSyntax, SyntaxError, TransportError}

RECURSIVE WrappedUpTo(_)
WrappedUpTo(n) ==
    IF n = 0 THEN BaseErrors
    ELSE LET inner == WrappedUpTo(n - 1)
         IN  inner \cup {Errorf(f, e) : f \in {"getting active proxies: %w", "applying %d opt: %w"},
                                        e \in inner}

Errors == WrappedUpTo(MaxWrap)

ErrIdle == anyErr = Nil /\ gotCode = Nil /\ gotMessage = Nil

ErrInit == anyErr \in Errors /\ gotCode = Nil /\ gotMessage = Nil

CallGetCode ==
    /\ gotCode = Nil
    /\ gotCode' = [int |-> GetCode(anyErr)]
    /\ UNCHANGED <<anyErr, gotMessage>>
    /\ UNCHANGED <<pipeVars, mapVars, stateVars, sensVars, logVars>>

CallGetMessage ==
    /\ gotMessage = Nil
    /\ gotMessage' = [str |-> GetMessage(anyErr)]
    /\ UNCHANGED <<anyErr, gotCode>>
    /\ UNCHANGED <<pipeVars, mapVars, stateVars, sensVars, logVars>>

-----------------------------------------------------------------------------
(* Specifications *)

\* One call of ListProxies.
Init == PipeInit /\ MapIdle /\ StateIdle /\ SensIdle /\ LogIdle /\ ErrIdle
Next == BuildRequest \/ DoRequest \/ CheckResponse \/ MapResponse
Spec == Init /\ [][Next]_vars

\* One raw record mapped, its type text parsed.
InitMap == PipeIdle /\ MapInit /\ StateIdle /\ SensIdle /\ LogIdle /\ ErrIdle
NextMap == CallMapProxyToEntity \/ CallParseProxyType
SpecMap == InitMap /\ [][NextMap]_vars

\* One text parsed as a ProxyState.
InitState == PipeIdle /\ MapIdle /\ StateInit /\ SensIdle /\ LogIdle /\ ErrIdle
NextState == CallParseProxyState
SpecState == InitState /\ [][NextState]_vars

\* MarshalText and Allow called on one Sensitive value, in any order.
InitSens == PipeIdle /\ MapIdle /\ StateIdle /\ SensInit /\ LogIdle /\ ErrIdle
NextSens == CallMarshalText \/ CallAllow
SpecSens == InitSens /\ [][NextSens]_vars

\* Logging calls on the logger of one run of the CLI.
InitLog == PipeIdle /\ MapIdle /\ StateIdle /\ SensIdle /\ LogInit /\ ErrIdle
NextLog == Debug \/ Info \/ Error
SpecLog == InitLog /\ [][NextLog]_vars

\* The accessors applied to one error.
InitErr == PipeIdle /\ MapIdle /\ StateIdle /\ SensIdle /\ LogIdle /\ ErrInit
NextErr == CallGetCode \/ CallGetMessage
SpecErr == InitErr /\ [][NextErr]_vars

-----------------------------------------------------------------------------
(* Claims about ListProxies (Spec) *)

\* The response of this call was decoded into an envelope: c.Do returned a
\* response with a status below 400 whose body is a document of the right types.
EnvelopeDecoded ==
    /\ pc \in {"loaded", "done"}
    /\ resp.kind = "response"
    /\ resp.StatusCode < 400
    /\ resp.doc # Nil
    /\ \A f \in {"status", "error"} : resp.doc[f] = Absent \/ IsStr(resp.doc[f])
    /\ resp.doc.error_id = Absent \/ IsNum(resp.doc.error_id)
    /\ resp.doc.list = Absent \/ IsArr(resp.doc.list)

\* The envelope as sent signals failure: status "no", error_id > 0 or an error text.
EnvelopeFails ==
    \/ resp.doc.status = JStr(<<"n","o">>)
    \/ (IsNum(resp.doc.error_id) /\ resp.doc.error_id.num > 0)
    \/ (IsStr(resp.doc.error) /\ resp.doc.error.str # <<>>)

SentErrorID == IF IsNum(resp.doc.error_id) THEN resp.doc.error_id.num ELSE 0
SentError   == IF IsStr(resp.doc.error) THEN resp.doc.error.str ELSE <<>>

\* C1: for a decoded envelope received with a status below 400, if status is "no"
\* or error_id > 0 or error is not empty, the call fails with a request error whose
\* GetCode is the envelope's error_id and whose message is the envelope's error
\* text, and returns no proxies; otherwise the envelope check makes no request error.
C1_EnvelopeError ==
    EnvelopeDecoded =>
        /\ checks = 1
        /\ IF EnvelopeFails
           THEN /\ err.kind = "RequestError"
                /\ GetCode(err) = SentErrorID
                /\ GetMessage(err) = SentError
                /\ proxies = Nil
           ELSE err.kind # "RequestError"

\* The spec's example: status "no", error_id 100 under HTTP 200 gives code 100.
C1_Witness ==
    /\ pc = "done" /\ EnvelopeDecoded
    /\ resp.StatusCode = 200
    /\ resp.doc.status = JStr(<<"n","o">>) /\ resp.doc.error_id = JNum(100)
    /\ GetCode(err) = 100

\* C2: a response with status >= 400 fails the call with a request error carrying
\* the status and the raw body, its body never decoded and the envelope check never
\* reached; a response with status < 400 is decoded, and before any envelope check.
C2_StatusError ==
    (pc \in {"requested", "loaded", "done"} /\ resp.kind = "response") =>
        IF resp.StatusCode >= 400
        THEN /\ err = RequestError(resp.StatusCode, resp.Body)
             /\ GetCode(err) = resp.StatusCode
             /\ GetMessage(err) = resp.Body
             /\ decodes = 0 /\ checks = 0
             /\ response = ZeroResponse
             /\ proxies = Nil
        ELSE decodes = 1 /\ checks <= decodes

\* A 404 whose body is an envelope with error_id 100: the code is 404.
C2_Witness ==
    /\ pc = "done" /\ resp.kind = "response" /\ resp.StatusCode = 404
    /\ resp.doc # Nil /\ resp.doc.error_id = JNum(100)
    /\ GetCode(err) = 404

\* The records of the decoded list that fail port or type parsing.
FailingRecords ==
    {i \in 1..Len(response.List) :
        Atoi(response.List[i].Port).err # Nil \/ ParseProxyType(response.List[i].Type).err # Nil}

\* C3: mapping the list is all-or-nothing: if a record at any position fails port
\* or type parsing the call returns the error of the first such record and no
\* proxies; otherwise it returns one Proxy per raw record, in the same order.
C3_AllOrNothing ==
    (pc = "done" /\ EnvelopeDecoded /\ ~EnvelopeFails) =>
        IF FailingRecords = {}
        THEN /\ err = Nil
             /\ proxies # Nil
             /\ Len(proxies.elems) = Len(response.List)
             /\ \A i \in 1..Len(response.List) :
                   /\ proxies.elems[i].ID = response.List[i].ID
                   /\ proxies.elems[i] = mapProxyToEntity(response.List[i]).proxy
        ELSE LET first == CHOOSE i \in FailingRecords : \A j \in FailingRecords : i <= j
             IN  /\ proxies = Nil
                 /\ err = mapProxyToEntity(response.List[first]).err

\* A list whose second record has the port "abc": nothing is returned.
C3_Witness ==
    /\ pc = "done" /\ EnvelopeDecoded /\ ~EnvelopeFails
    /\ response.List = <<ItemHTTP, ItemBadPort>>
    /\ proxies = Nil /\ err # Nil

\* C8 as stated: every call that has returned issued exactly one request.
C8_ExactlyOneRequest == pc = "done" => requests = 1

\* C8, amended: a call issues at most one request and ends with either a proxy
\* list or an error; the request is never sent again, whatever went wrong; and a
\* call returns without a request only when building the request failed.
C8_AtMostOneRequest ==
    /\ requests <= 1
    /\ pc \in {"requested", "loaded"} => requests = 1
    /\ pc = "done" => /\ (proxies = Nil) # (err = Nil)
                      /\ requests = 0 <=> request = Nil
                      /\ requests = 0 => err = Errorf("making request: %w", URLError)
    /\ pc # "done" => ENABLED Next

\* A key the URL cannot hold: the call returns an error and nothing was sent.
C8_Witness == pc = "done" /\ requests = 0 /\ request = Nil /\ err # Nil /\ key = <<"%">>

-----------------------------------------------------------------------------
(* Claims about mapProxyToEntity and ParseProxyType (SpecMap) *)

\* The port text is an integer in 0..65535.
PortInRange == Atoi(item.Port).err = Nil /\ Atoi(item.Port).n \in 0..(Uint16Size - 1)

\* C4: mapping succeeds only if the port text is an integer in 0..65535, and then
\* Proxy.Port is that integer; for any other port text mapping fails.
C4_PortFits16Bits ==
    mapped # Nil =>
        /\ mapped.err = Nil => (PortInRange /\ mapped.proxy.Port = Atoi(item.Port).n)
        /\ ~PortInRange => mapped.err # Nil

\* C7: ParseProxyType succeeds exactly on "http" and "socks", case-sensitively;
\* any other text fails with the wrong-proxy-type error and ProxyTypeUnknown; and
\* no Proxy produced by the mapping has type ProxyTypeUnknown.
C7_ParseProxyType ==
    /\ parsedType # Nil =>
          CASE item.Type = <<"h","t","t","p">>     -> parsedType = [t |-> ProxyTypeHTTP, err |-> Nil]
            [] item.Type = <<"s","o","c","k","s">> -> parsedType = [t |-> ProxyTypeSocks, err |-> Nil]
            [] OTHER -> /\ parsedType.t = ProxyTypeUnknown
                        /\ ErrorsAs(parsedType.err, "entities.Error") = ErrWrongProxyType
    /\ (mapped # Nil /\ mapped.err = Nil) =>
          /\ mapped.proxy.Type \in {ProxyTypeHTTP, ProxyTypeSocks}
          /\ item.Type \in {<<"h","t","t","p">>, <<"s","o","c","k","s">>}

\* "HTTP" with a good port: the type is refused and so is the record.
C7_Witness ==
    /\ parsedType # Nil /\ mapped # Nil
    /\ item.Type = <<"H","T","T","P">> /\ item.Port = <<"8","0","8","0">>
    /\ parsedType.err # Nil /\ mapped.err # Nil

-----------------------------------------------------------------------------
(* Claims about ParseProxyState (SpecState) *)

KnownStates == {ProxyStateAll, ProxyStateActive, ProxyStateExpired, ProxyStateExpiring}

\* C6: ParseProxyState succeeds exactly on the case variants of "all", "active",
\* "expired" and "expiring", with the matching state; any other text, the empty one
\* included, fails with a parse error of field "state" and ProxyStateUnknown.
C6_ParseProxyState ==
    parsedState # Nil =>
        IF \E st \in KnownStates : value \in CaseVariants(ProxyStateString(st))
        THEN /\ parsedState.err = Nil
             /\ parsedState.state \in KnownStates
             /\ value \in CaseVariants(ProxyStateString(parsedState.state))
        ELSE /\ parsedState.state = ProxyStateUnknown
             /\ parsedState.err.kind = "ParseError"
             /\ parsedState.err.Name = "state"

C6_Witness ==
    /\ parsedState # Nil
    /\ value = <<"E","x","P","i","r","I","n","G">>
    /\ parsedState = [state |-> ProxyStateExpiring, err |-> Nil]

-----------------------------------------------------------------------------
(* Claims about Sensitive (SpecSens) *)

\* The text form of the wrapped value, read back: a string is itself, an int is
\* the number its text denotes.
IsTextOf(bytes, v) ==
    IF "int" \in DOMAIN v THEN Atoi(bytes) = [n |-> v.int, err |-> Nil] ELSE bytes = v.str

\* C5: Sensitive is a one-way latch: MarshalText returns "***" when Allow was not
\* called before it and the text of the wrapped value when it was; the flag is set
\* exactly when Allow has been called, so nothing clears it, and MarshalText
\* changes neither the flag nor the value.
C5_SensitiveLatch ==
    /\ sens.allow = allowCalled
    /\ sens.value = wrapped
    /\ text # Nil =>
          /\ text.allowedBefore => allowCalled
          /\ IF text.allowedBefore THEN IsTextOf(text.bytes, wrapped) ELSE text.bytes = Mask

\* Masked, then allowed, then revealed.
C5_Witness ==
    /\ ops = 3 /\ wrapped = [int |-> -7]
    /\ text # Nil /\ text.allowedBefore /\ text.bytes = <<"-", "7">>

-----------------------------------------------------------------------------
(* Claims about logging (SpecLog) *)

\* The sink a call of this level is routed to is there.
SinkPresent(level) == logger = "simple" /\ ctxLogger /\ (level = "debug" => debugFlag)

Tag(level) == <<"[">> \o LevelText(level) \o <<"]", " ">>

HasTag(w, level) == Len(w) >= Len(Tag(level)) /\ SubSeq(w, 1, Len(Tag(level))) = Tag(level)

Newlines(w) == Cardinality({i \in 1..Len(w) : w[i] = "\n"})

\* C9 as stated: a call routed to a present sink writes exactly one line.
C9_OneLinePerCall ==
    (lastCall # Nil /\ SinkPresent(lastCall.level)) =>
        /\ Len(stdout) = lastCall.before + 1
        /\ HasTag(stdout[Len(stdout)], lastCall.level)
        /\ Newlines(stdout[Len(stdout)]) = 1

\* C9, amended: no call faults; the no-op logger writes nothing; a call routed to
\* an absent sink writes nothing, so without --debug or without a logger in the
\* context no debug line is written; a call routed to a present sink makes exactly
\* one write, which starts with the sink's severity tag and holds one newline more
\* than the message and the fields do.
C9_AbsentSinkNoop ==
    /\ ~faulted
    /\ logger = "noop" => stdout = <<>>
    /\ (~debugFlag \/ ~ctxLogger) => \A i \in 1..Len(stdout) : ~HasTag(stdout[i], "debug")
    /\ lastCall # Nil =>
          IF SinkPresent(lastCall.level)
          THEN LET w == stdout[Len(stdout)]
               IN  /\ Len(stdout) = lastCall.before + 1
                   /\ HasTag(w, lastCall.level)
                   /\ Newlines(w) = 1 + Newlines(lastCall.msg) + Newlines(join(lastCall.args))
          ELSE Len(stdout) = lastCall.before

\* Without --debug, a Debug call after an Info call that wrote: nothing is added.
C9_Witness ==
    /\ lastCall # Nil /\ lastCall.level = "debug"
    /\ logger = "simple" /\ ctxLogger /\ ~debugFlag
    /\ lastCall.before = 1 /\ Len(stdout) = 1

-----------------------------------------------------------------------------
(* Claims about the error accessors (SpecErr) *)

\* The error at the end of e's Unwrap chain.
RECURSIVE Innermost(_)
Innermost(e) == IF e.kind = "wrap" THEN Innermost(e.err) ELSE e

\* C10: GetCode returns the code of a request error, wrapped or not, and -1 for
\* any other error; GetMessage returns the message a general, request or parse
\* error carries, and the empty string for any other error.
C10_Accessors ==
    LET e == Innermost(anyErr)
    IN  /\ gotCode # Nil =>
              gotCode.int = IF e.kind = "RequestError" THEN e.code ELSE -1
        /\ gotMessage # Nil =>
              gotMessage.str = CASE e.kind \in {"RequestError", "GeneralError"} -> e.msg
                                 [] e.kind = "ParseError" -> e.Reason
                                 [] OTHER -> <<>>

====
